---- MODULE Spec2Model ----
(***************************************************************************)
(* A model of nexusmods-notifier (src/main.py): the two polling loops      *)
(* `additions` and `updates`, the state files they load and save, and the  *)
(* changelog resolution of the update tracker.                             *)
(*                                                                         *)
(* One process runs at a time (src/main.py:312-334 starts exactly one of   *)
(* the two trackers).  A process that has ended can be started again; it   *)
(* then reloads its state file.  `pc` is the position of the running       *)
(* process in its function, "stopped" when no process runs.                *)
(***************************************************************************)
EXTENDS Integers, Sequences, FiniteSets, TLC

\* ------------------------------------------------------------------ bounds
NumMods == 2
MaxSnap == 2
MaxSends == 2
MaxChangelog == 3
MaxTS == 2

Mods == 1..NumMods

\* ------------------------------------------------------------------ state
VARIABLES
    command,            \* the sub-command this installation runs: additions/updates
    pc,                 \* position of the running process, "stopped" if none
    exit_status,        \* how the last process ended: none/normal/exception/interrupt
    raised,             \* the call that raised in the last step, "none" if none did
    hide_adult_content, \* --hide-adult-content of the running process
    loop,               \* not --no-loop of the running process
    \* additions()
    seen_mods,          \* set[int], in memory
    seen_file,          \* seen_mods.json on disk
    mods,               \* the list fetched in this cycle
    idx,                \* position of the for loop in sorted(mods)
    new_mods_data,      \* report rows of this cycle (mod ids)
    \* history of the addition tracker (not program state)
    sends,              \* per mod id: calls of send_telegram_message so far
    adult_skipped,      \* mod ids that took the adult-content `continue`
    last_snapshot,      \* the list of the last cycle that ran to its save
    rerun,              \* this cycle fetched last_snapshot again
    unclean,            \* some process ended inside a cycle, before its save
    loaded_seen,        \* the seen-set this process loaded at startup
    written,            \* union of the snapshots this process has written
    retry,              \* mod ids this cycle's list reports available that the last
                        \* cycle that ran to its save was told were unavailable, and
                        \* left out of the seen-set
    \* updates()
    local_cache,        \* dict[int, entry], in memory
    cache_file,         \* update_cache.json on disk
    updated_mod_data,   \* mod id -> latest_file_update, of this cycle's updated.json
    tracked_mod_ids,    \* the tracked ids of this cycle, filtered
    todo,               \* the ids the for loop has still to visit
    mods_with_new_version, \* report rows of this cycle
    \* the remote site, as far as updates() reads it
    remote_version,     \* per mod: its current version string
    remote_lfu,         \* per mod: the time of its latest file update
    \* history of the update tracker (not program state)
    sent_now,           \* the changes send_telegram_message was called for in the last step
    unsaved_sends,      \* its calls since the cache file was last written: the change,
                        \* whether requests.post raised, and whether the process that
                        \* made the call is gone
    saved_sends,        \* the changes whose call returned in a process that went on
                        \* to write the cache file
    \* the changelog resolution of updates(), applied on its own
    cl_old_version,     \* old_version
    cl_changelogs,      \* changelogs, as fetched
    cl_new_versions,    \* new_versions, once resolved
    cl_pc,              \* "input" before the resolution, "resolved" after
    \* one iteration of the steady-state loop of updates(), applied on its own
    st_hide,            \* hide_adult_content
    st_tracked,         \* tracked_mods: per tracked mod id its is_adult field
    st_cache,           \* local_cache before the iteration
    st_ids,             \* tracked_mod_ids, once line 198 has filtered
    st_mod,             \* mod_id of the iteration
    st_new_lfu,         \* new_latest_file_update
    st_details,         \* what fetch_mod returns for st_mod in this cycle
    st_result,          \* what the iteration did: UpdatesStep and the report rows
    st_again,           \* the same on the same remote data, one cycle later
    st_pc,              \* fetched / filtered / raised / iterated / caught / again
    \* a save of the cache and the load of a later start, applied on their own
    rt_cache,           \* local_cache when save_state is called
    rt_file,            \* update_cache.json
    rt_loaded,          \* local_cache as lines 164-166 build it from the file
    rt_pc               \* cache / saved / loaded

procVars == <<command, pc, exit_status, raised, hide_adult_content, loop>>
addVars == <<seen_mods, seen_file, mods, idx, new_mods_data>>
addHist == <<sends, adult_skipped, last_snapshot, rerun, unclean, loaded_seen, written,
             retry>>
updVars == <<local_cache, cache_file, updated_mod_data, tracked_mod_ids, todo,
             mods_with_new_version>>
remoteVars == <<remote_version, remote_lfu>>
updHist == <<sent_now, unsaved_sends, saved_sends>>
clVars == <<cl_old_version, cl_changelogs, cl_new_versions, cl_pc>>
stVars == <<st_hide, st_tracked, st_cache, st_ids, st_mod, st_new_lfu, st_details,
            st_result, st_again, st_pc>>
rtVars == <<rt_cache, rt_file, rt_loaded, rt_pc>>
vars == <<procVars, addVars, addHist, updVars, remoteVars, updHist, clVars, stVars,
          rtVars>>

\* What each part of the model leaves alone.
notAdditions == <<updVars, remoteVars, updHist, clVars, stVars, rtVars>>
notUpdates == <<addVars, addHist, clVars, stVars, rtVars>>
notChangelog == <<procVars, addVars, addHist, updVars, remoteVars, updHist, stVars,
                  rtVars>>
notIteration == <<procVars, addVars, addHist, updVars, remoteVars, updHist, clVars,
                  rtVars>>
notRoundTrip == <<procVars, addVars, addHist, updVars, remoteVars, updHist, clVars,
                  stVars>>

\* ------------------------------------------------------------------ files
\* A state file: absent, a complete JSON document, or truncated/half written
\* (open(state_file, "w") has truncated it and json.dump has not finished).
AbsentFile == [kind |-> "absent", data |-> <<>>]
PartialFile == [kind |-> "partial", data |-> <<>>]
JsonFile(d) == [kind |-> "json", data |-> d]

Range(s) == {s[i] : i \in 1..Len(s)}

\* list(seen_mods): the members in some iteration order, each once.
ListsOf(S) == {s \in [1..Cardinality(S) -> S] : Range(s) = S}

\* A faulty load_state: the loaded document is dropped.
LoadSeen_Dropped(f) == {}

\* set(load_state(state_file) or []): None (no file) gives the empty set.
LoadSeen(f) == IF f.kind = "json" THEN Range(f.data) ELSE {}

\* json.load raises on an empty or half-written document.
LoadRaises(f) == f.kind = "partial"

\* ------------------------------------------------------------------ additions: data
\* A ModSummary of latest_added.json, cut to the fields the tracker decides on.
ModSummaries == [mod_id : Mods, available : BOOLEAN, contains_adult_content : BOOLEAN]

\* What fetch_latest_mods can return: any list, duplicates included.
Snapshots == UNION {[1..n -> ModSummaries] : n \in 0..MaxSnap}

NoSnapshot == [has |-> FALSE, val |-> <<>>]
SomeSnapshot(s) == [has |-> TRUE, val |-> s]

\* sorted(mods, key=lambda x: x["mod_id"]): a stable sort, built by inserting each
\* element behind the elements whose key is not greater.
InsertByModId(s, x) ==
    LET k == Cardinality({i \in 1..Len(s) : s[i].mod_id <= x.mod_id})
    IN  SubSeq(s, 1, k) \o <<x>> \o SubSeq(s, k + 1, Len(s))

RECURSIVE SortByModId(_)
SortByModId(s) ==
    IF s = <<>> THEN <<>>
    ELSE InsertByModId(SortByModId(SubSeq(s, 1, Len(s) - 1)), s[Len(s)])

\* Faulty variants of the iteration.  seen_mods.add moved behind the adult-content check:
AdditionsStep_AddAfterFilter(seen, mod, hide) ==
    IF mod.mod_id \in seen \/ ~mod.available \/ (hide /\ mod.contains_adult_content)
    THEN [seen |-> seen, notify |-> FALSE,
          adult |-> mod.mod_id \notin seen /\ mod.available]
    ELSE [seen |-> seen \cup {mod.mod_id}, notify |-> TRUE, adult |-> FALSE]

\* seen_mods.add forgotten:
AdditionsStep_NeverAdds(seen, mod, hide) ==
    IF mod.mod_id \in seen \/ ~mod.available
    THEN [seen |-> seen, notify |-> FALSE, adult |-> FALSE]
    ELSE [seen |-> seen, notify |-> ~(hide /\ mod.contains_adult_content),
          adult |-> hide /\ mod.contains_adult_content]

\* seen_mods rebound to the new identifier instead of extended:
AdditionsStep_Rebinds(seen, mod, hide) ==
    IF mod.mod_id \in seen \/ ~mod.available
    THEN [seen |-> seen, notify |-> FALSE, adult |-> FALSE]
    ELSE [seen |-> {mod.mod_id}, notify |-> ~(hide /\ mod.contains_adult_content),
          adult |-> hide /\ mod.contains_adult_content]

\* One iteration of the for loop of additions() on `mod`: the new seen-set, whether
\* the iteration reaches the report row and send_telegram_message, and whether it
\* left through the adult-content `continue`.
\* the availability check forgotten:
AdditionsStep_SeesUnavailable(seen, mod, hide) ==
    IF mod.mod_id \in seen THEN [seen |-> seen, notify |-> FALSE, adult |-> FALSE]
    ELSE IF hide /\ mod.contains_adult_content
    THEN [seen |-> seen \cup {mod.mod_id}, notify |-> FALSE, adult |-> TRUE]
    ELSE [seen |-> seen \cup {mod.mod_id}, notify |-> mod.available, adult |-> FALSE]

AdditionsStep(seen, mod, hide) ==
    IF mod.mod_id \in seen
    THEN [seen |-> seen, notify |-> FALSE, adult |-> FALSE]
    ELSE IF ~mod.available
    THEN [seen |-> seen, notify |-> FALSE, adult |-> FALSE]
    ELSE IF hide /\ mod.contains_adult_content
    THEN [seen |-> seen \cup {mod.mod_id}, notify |-> FALSE, adult |-> TRUE]
    ELSE [seen |-> seen \cup {mod.mod_id}, notify |-> TRUE, adult |-> FALSE]

\* The mod ids the list of snapshot reported, never as available, and that seen
\* does not hold.
LeftUnseen(snapshot, seen) ==
    {m \in Mods \ seen :
        /\ snapshot.has
        /\ \E i \in 1..Len(snapshot.val) : snapshot.val[i].mod_id = m
        /\ \A i \in 1..Len(snapshot.val) :
            snapshot.val[i].mod_id = m => ~snapshot.val[i].available}

\* Those of left that list s reports available.
Retried(left, s) ==
    {m \in left : \E i \in 1..Len(s) : s[i].mod_id = m /\ s[i].available}

\* What save_state(state_file, list(seen_mods)) writes once json.dump completes.
SeenDocuments(seen) == {JsonFile(l) : l \in ListsOf(seen)}

\* ------------------------------------------------------------------ changelog resolution
\* A changelog as fetch_mod_changelogs returns it: a JSON object, so a dict in
\* insertion order with no key twice; here the list of its items.
ChangelogKeys == {"1.0", "1.1", "1.2"}
ChangeNotes == {<<"fix A">>, <<"fix B", "fix C">>}
ChangelogItems == [version : ChangelogKeys, notes : ChangeNotes]
ChangelogsOf(items, max) ==
    UNION {{c \in [1..n -> items] : \A i, j \in 1..n : c[i].version = c[j].version => i = j}
           : n \in 0..max}
Changelogs == ChangelogsOf(ChangelogItems, MaxChangelog)

\* The changelogs the tracker is run on: those of at most two versions, one note each.
TrackedChangelogs ==
    ChangelogsOf([version : {"1.0", "1.1"}, notes : {<<"fix A">>}], MaxChangelog - 1)

\* Version strings a cache entry or a mod's details can hold; "" is falsy.
OldVersions == {"0.9", "1.0", "1.1", "1.2"}

\* list(changelogs.keys()).index(old_version), from 0.
KeyIndex(changelogs, old_version) ==
    (CHOOSE i \in 1..Len(changelogs) : changelogs[i].version = old_version) - 1

\* A faulty fallback: -1 instead of -2.
LastVersionIndex_MinusOne(changelogs, old_version) ==
    IF \E i \in 1..Len(changelogs) : changelogs[i].version = old_version
    THEN KeyIndex(changelogs, old_version)
    ELSE -1

\* last_version_index: the old version's place, -2 when it is no key.
LastVersionIndex(changelogs, old_version) ==
    IF \E i \in 1..Len(changelogs) : changelogs[i].version = old_version
    THEN KeyIndex(changelogs, old_version)
    ELSE -2

\* A faulty slice: it starts at the old version.
PySliceFrom_Inclusive(s, start) ==
    LET n == Len(s)
        from == IF start - 1 < 0 THEN (IF n + start - 1 < 0 THEN 0 ELSE n + start - 1)
                ELSE (IF start - 1 > n THEN n ELSE start - 1)
    IN  SubSeq(s, from + 1, n)

\* Python's s[start:]: a negative start counts from the end, and both are clamped.
PySliceFrom(s, start) ==
    LET n == Len(s)
        from == IF start < 0 THEN (IF n + start < 0 THEN 0 ELSE n + start)
                ELSE (IF start > n THEN n ELSE start)
    IN  SubSeq(s, from + 1, n)

\* new_versions = dict(list(changelogs.items())[last_version_index + 1:])
NewVersions(changelogs, old_version) ==
    PySliceFrom(changelogs, LastVersionIndex(changelogs, old_version) + 1)

InitChangelog ==
    /\ cl_old_version \in OldVersions
    /\ cl_changelogs \in Changelogs
    /\ cl_new_versions = <<>>
    /\ cl_pc = "input"

ResolveChangelog ==
    /\ cl_pc = "input"
    /\ cl_new_versions' = NewVersions(cl_changelogs, cl_old_version)
    /\ cl_pc' = "resolved"
    /\ UNCHANGED <<cl_old_version, cl_changelogs>>
    /\ UNCHANGED notChangelog

\* ------------------------------------------------------------------ updates: data
\* Python's None among the integers of latest_file_update.
None == -1

\* Times of a latest file update, as updated.json reports them.
Timestamps == 1..MaxTS

\* Version strings of a mod's details; "" is the falsy one.
Versions == {"", "1.0", "1.1"}

\* `if x`: None, 0 and "" are falsy.
TruthyInt(x) == x /= None /\ x /= 0
TruthyStr(x) == x /= ""

\* A cache entry, as lines 181-185, 207-211 and 258-262 build it.
CacheEntry(version, lfu, adult) ==
    [version |-> version, latest_file_update |-> lfu, is_adult |-> adult]

EmptyDict == <<>>

\* A faulty assignment: the dict is rebuilt from the one key.
DictPut_Fresh(d, k, v) == [x \in {k} |-> v]

\* d[k] = v
DictPut(d, k, v) == [x \in (DOMAIN d) \cup {k} |-> IF x = k THEN v ELSE d[x]]

\* d.get(k, None), for a dict of integers
DictGet(d, k) == IF k \in DOMAIN d THEN d[k] ELSE None

\* A change the tracker notifies: the mod and the file-update time it reacted to.
Change(m, t) == [mod_id |-> m, latest_file_update |-> t]

\* The record of a send_telegram_message call for change c, replacing an earlier one
\* for the same change.
Recorded(calls, c, failed) ==
    {x \in calls : x.change /= c} \cup {[change |-> c, failed |-> failed, lost |-> FALSE]}

\* The changes among calls whose send_telegram_message call returned.
Returned(calls) == {x.change : x \in {y \in calls : ~y.failed}}

\* The calls as a new process finds them: made by a process whose memory is gone.
Lost(calls) == {[x EXCEPT !.lost = TRUE] : x \in calls}

\* json.dump writes a dict's int keys as decimal strings.
Digit(d) ==
    CASE d = 0 -> "0" [] d = 1 -> "1" [] d = 2 -> "2" [] d = 3 -> "3" [] d = 4 -> "4"
      [] d = 5 -> "5" [] d = 6 -> "6" [] d = 7 -> "7" [] d = 8 -> "8" [] d = 9 -> "9"

RECURSIVE IntToStr(_)
IntToStr(n) == IF n < 10 THEN Digit(n) ELSE IntToStr(n \div 10) \o Digit(n % 10)

\* int(mod_id) on a key of the loaded document: the number the string is the
\* decimal form of.
StrToInt(k) == CHOOSE n \in Mods : IntToStr(n) = k

\* What save_state(cache_file_path, local_cache) writes once json.dump completes.
CacheDocument(cache) ==
    JsonFile([k \in {IntToStr(m) : m \in DOMAIN cache} |->
                cache[CHOOSE m \in DOMAIN cache : IntToStr(m) = k]])

\* A faulty load: null comes back as 0.
LoadCache_NullAsZero(f) ==
    IF f.kind = "json"
    THEN [m \in {StrToInt(k) : k \in DOMAIN f.data} |->
            LET e == f.data[CHOOSE k \in DOMAIN f.data : StrToInt(k) = m]
            IN  [e EXCEPT !.latest_file_update = IF @ = None THEN 0 ELSE @]]
    ELSE EmptyDict

\* {int(mod_id): value for mod_id, value in (load_state(cache_file_path) or {}).items()}
LoadCache(f) ==
    IF f.kind = "json"
    THEN [m \in {StrToInt(k) : k \in DOMAIN f.data} |->
            f.data[CHOOSE k \in DOMAIN f.data : StrToInt(k) = m]]
    ELSE EmptyDict

\* What user/tracked_mods.json can return: mod ids, each with an is_adult field that
\* is true, false, or not there (mod["is_adult"] then raises KeyError).
TrackedFlags == {"true", "false", "missing"}
TrackedLists == UNION {[T -> TrackedFlags] : T \in SUBSET Mods}

\* Line 198 raises when it reads is_adult of an entry that has none.
TrackedFilterRaises(tracked, hide) ==
    hide /\ \E m \in DOMAIN tracked : tracked[m] = "missing"

\* {mod["mod_id"] for mod in tracked_mods if not hide_adult_content or not mod["is_adult"]}
FilterTracked(tracked, hide) ==
    {m \in DOMAIN tracked : ~hide \/ tracked[m] = "false"}

\* What updated.json can return: the mods updated within the period, each with
\* the time of its latest file update.
UpdatedLists == {[m \in P |-> remote_lfu[m]] : P \in SUBSET Mods}

\* The mods the remote site flags as adult content: the even ids.
IsAdultMod(m) == m % 2 = 0

\* fetch_mod: the details of a mod, cut to the fields the tracker decides on.
ModDetails(m) ==
    {[version |-> remote_version[m], contains_adult_content |-> IsAdultMod(m)]}

\* A faulty updates(): no try around the cycle.
Handler_NoTry(at) == "stopped"

\* Where control continues when a call made at `at` raises an Exception: behind the
\* except clause of the steady-state cycle of updates(), nowhere otherwise.
Handler(at) == IF at \in {"try", "upd_for", "upd_dump"} THEN "report" ELSE "stopped"

\* A faulty iteration: a confirmed update leaves the cache entry as it was.
UpdatesStep_KeepsEntry(cache, mod_id, new_lfu, mod_details, changelogs) ==
    LET cached_lfu == IF mod_id \in DOMAIN cache
                      THEN cache[mod_id].latest_file_update ELSE None
        old_version == cache[mod_id].version
        new_version == mod_details.version
        entry == CacheEntry(mod_details.version, new_lfu,
                            mod_details.contains_adult_content)
        quiet == [fetch_mod |-> FALSE, confirmed |-> FALSE, new_versions |-> <<>>]
    IN  IF mod_id \notin DOMAIN cache
        THEN [quiet EXCEPT !.fetch_mod = TRUE] @@ [cache |-> DictPut(cache, mod_id, entry)]
        ELSE IF TruthyInt(new_lfu) /\ cached_lfu /= new_lfu
        THEN IF TruthyStr(old_version) /\ TruthyStr(new_version)
                /\ old_version /= new_version
             THEN [fetch_mod |-> TRUE, confirmed |-> TRUE,
                   new_versions |-> NewVersions(changelogs, old_version),
                   cache |-> cache]
             ELSE [quiet EXCEPT !.fetch_mod = TRUE]
                    @@ [cache |-> DictPut(cache, mod_id, entry)]
        ELSE quiet @@ [cache |-> cache]

\* A faulty iteration: the timestamps are not compared.
UpdatesStep_IgnoresTimestamp(cache, mod_id, new_lfu, mod_details, changelogs) ==
    LET cached_lfu == IF mod_id \in DOMAIN cache
                      THEN cache[mod_id].latest_file_update ELSE None
        old_version == cache[mod_id].version
        new_version == mod_details.version
        entry == CacheEntry(mod_details.version, new_lfu,
                            mod_details.contains_adult_content)
        quiet == [fetch_mod |-> FALSE, confirmed |-> FALSE, new_versions |-> <<>>]
    IN  IF mod_id \notin DOMAIN cache
        THEN [quiet EXCEPT !.fetch_mod = TRUE] @@ [cache |-> DictPut(cache, mod_id, entry)]
        ELSE IF TruthyInt(new_lfu)
        THEN IF TruthyStr(old_version) /\ TruthyStr(new_version)
                /\ old_version /= new_version
             THEN [fetch_mod |-> TRUE, confirmed |-> TRUE,
                   new_versions |-> NewVersions(changelogs, old_version),
                   cache |-> DictPut(cache, mod_id, entry)]
             ELSE [quiet EXCEPT !.fetch_mod = TRUE]
                    @@ [cache |-> DictPut(cache, mod_id, entry)]
        ELSE quiet @@ [cache |-> cache]

\* A faulty iteration: a new mod is cached without its timestamp.
UpdatesStep_SeedsNoTimestamp(cache, mod_id, new_lfu, mod_details, changelogs) ==
    LET cached_lfu == IF mod_id \in DOMAIN cache
                      THEN cache[mod_id].latest_file_update ELSE None
        old_version == cache[mod_id].version
        new_version == mod_details.version
        entry == CacheEntry(mod_details.version, new_lfu,
                            mod_details.contains_adult_content)
        quiet == [fetch_mod |-> FALSE, confirmed |-> FALSE, new_versions |-> <<>>]
    IN  IF mod_id \notin DOMAIN cache
        THEN [quiet EXCEPT !.fetch_mod = TRUE]
                @@ [cache |-> DictPut(cache, mod_id,
                                      [entry EXCEPT !.latest_file_update = None])]
        ELSE IF TruthyInt(new_lfu) /\ cached_lfu /= new_lfu
        THEN IF TruthyStr(old_version) /\ TruthyStr(new_version)
                /\ old_version /= new_version
             THEN [fetch_mod |-> TRUE, confirmed |-> TRUE,
                   new_versions |-> NewVersions(changelogs, old_version),
                   cache |-> DictPut(cache, mod_id, entry)]
             ELSE [quiet EXCEPT !.fetch_mod = TRUE]
                    @@ [cache |-> DictPut(cache, mod_id, entry)]
        ELSE quiet @@ [cache |-> cache]

\* A faulty iteration: the versions are not compared.
UpdatesStep_AnyVersions(cache, mod_id, new_lfu, mod_details, changelogs) ==
    LET cached_lfu == IF mod_id \in DOMAIN cache
                      THEN cache[mod_id].latest_file_update ELSE None
        old_version == cache[mod_id].version
        new_version == mod_details.version
        entry == CacheEntry(mod_details.version, new_lfu,
                            mod_details.contains_adult_content)
        quiet == [fetch_mod |-> FALSE, confirmed |-> FALSE, new_versions |-> <<>>]
    IN  IF mod_id \notin DOMAIN cache
        THEN [quiet EXCEPT !.fetch_mod = TRUE] @@ [cache |-> DictPut(cache, mod_id, entry)]
        ELSE IF TruthyInt(new_lfu) /\ cached_lfu /= new_lfu
        THEN IF TruthyStr(old_version) /\ TruthyStr(new_version)
             THEN [fetch_mod |-> TRUE, confirmed |-> TRUE,
                   new_versions |-> NewVersions(changelogs, old_version),
                   cache |-> DictPut(cache, mod_id, entry)]
             ELSE [quiet EXCEPT !.fetch_mod = TRUE]
                    @@ [cache |-> DictPut(cache, mod_id, entry)]
        ELSE quiet @@ [cache |-> cache]

\* A faulty iteration: only a confirmed update overwrites the cache entry.
UpdatesStep_OverwritesConfirmed(cache, mod_id, new_lfu, mod_details, changelogs) ==
    LET cached_lfu == IF mod_id \in DOMAIN cache
                      THEN cache[mod_id].latest_file_update ELSE None
        old_version == cache[mod_id].version
        new_version == mod_details.version
        entry == CacheEntry(mod_details.version, new_lfu,
                            mod_details.contains_adult_content)
        quiet == [fetch_mod |-> FALSE, confirmed |-> FALSE, new_versions |-> <<>>]
    IN  IF mod_id \notin DOMAIN cache
        THEN [quiet EXCEPT !.fetch_mod = TRUE] @@ [cache |-> DictPut(cache, mod_id, entry)]
        ELSE IF TruthyInt(new_lfu) /\ cached_lfu /= new_lfu
        THEN IF TruthyStr(old_version) /\ TruthyStr(new_version)
                /\ old_version /= new_version
             THEN [fetch_mod |-> TRUE, confirmed |-> TRUE,
                   new_versions |-> NewVersions(changelogs, old_version),
                   cache |-> DictPut(cache, mod_id, entry)]
             ELSE [quiet EXCEPT !.fetch_mod = TRUE] @@ [cache |-> cache]
        ELSE quiet @@ [cache |-> cache]

\* One iteration of the steady-state for loop of updates() on mod_id, given what the
\* calls it makes return: the cache after it, whether it calls fetch_mod,
\* fetch_mod_changelogs and send_telegram_message, and the versions it reports.
UpdatesStep(cache, mod_id, new_lfu, mod_details, changelogs) ==
    LET cached_lfu == IF mod_id \in DOMAIN cache
                      THEN cache[mod_id].latest_file_update ELSE None
        old_version == cache[mod_id].version
        new_version == mod_details.version
        entry == CacheEntry(mod_details.version, new_lfu,
                            mod_details.contains_adult_content)
        quiet == [fetch_mod |-> FALSE, confirmed |-> FALSE, new_versions |-> <<>>]
    IN  IF mod_id \notin DOMAIN cache
        THEN [quiet EXCEPT !.fetch_mod = TRUE] @@ [cache |-> DictPut(cache, mod_id, entry)]
        ELSE IF TruthyInt(new_lfu) /\ cached_lfu /= new_lfu
        THEN IF TruthyStr(old_version) /\ TruthyStr(new_version)
                /\ old_version /= new_version
             THEN [fetch_mod |-> TRUE, confirmed |-> TRUE,
                   new_versions |-> NewVersions(changelogs, old_version),
                   cache |-> DictPut(cache, mod_id, entry)]
             ELSE [quiet EXCEPT !.fetch_mod = TRUE]
                    @@ [cache |-> DictPut(cache, mod_id, entry)]
        ELSE quiet @@ [cache |-> cache]

\* What the calls of an iteration that confirms an update can return; an iteration
\* that confirms none makes neither call.
Confirms(cache, mod_id, mod_details) ==
    UpdatesStep(cache, mod_id, DictGet(updated_mod_data, mod_id), mod_details, <<>>).confirmed
FetchedChangelogs(cache, mod_id, mod_details) ==
    IF Confirms(cache, mod_id, mod_details) THEN TrackedChangelogs ELSE {<<>>}

\* The rows lines 246-256 append for one notification.
ReportRows(mod_id, old_version, new_versions) ==
    [i \in 1..Len(new_versions) |->
        [ID |-> mod_id, Old |-> old_version, New |-> new_versions[i].version]]

\* ------------------------------------------------------------------ one iteration
\* The caches update_cache.json can hand to a process: any entries, for any of the
\* mods (the file outlives the versions and timestamps it was written from).
StepEntries ==
    [version : Versions, latest_file_update : {None} \cup Timestamps, is_adult : BOOLEAN]
StepCaches == UNION {[D -> StepEntries] : D \in SUBSET Mods}

\* What fetch_mod can return, cut to the fields the tracker decides on.
StepDetails == [version : Versions, contains_adult_content : BOOLEAN]

\* What an iteration in which no call raises leaves behind: the decisions and the
\* cache of UpdatesStep, the number of send_telegram_message calls and the rows
\* appended to mods_with_new_version.
Outcome(cache, mod_id, new_lfu, mod_details, changelogs) ==
    LET r == UpdatesStep(cache, mod_id, new_lfu, mod_details, changelogs)
    IN  [raised |-> "none",
         fetch_mod |-> r.fetch_mod,
         fetch_mod_changelogs |-> r.confirmed,
         sends |-> IF r.confirmed THEN 1 ELSE 0,
         new_versions |-> r.new_versions,
         rows |-> IF r.confirmed
                  THEN ReportRows(mod_id, cache[mod_id].version, r.new_versions)
                  ELSE <<>>,
         cache |-> r.cache]

\* What an iteration leaves behind when one of its calls raises: fetch_mod (lines 206
\* and 216), fetch_mod_changelogs (222) or send_telegram_message (234).  Control
\* leaves the loop for the except clause; lines 246-262 are not reached when the
\* iteration was confirming an update, nor lines 207-211 and 258-262 when fetch_mod
\* raised.
RaisedOutcome(cache, mod_id, new_lfu, mod_details, changelogs, what) ==
    LET r == UpdatesStep(cache, mod_id, new_lfu, mod_details, changelogs)
    IN  [raised |-> what,
         fetch_mod |-> TRUE,
         fetch_mod_changelogs |-> what /= "fetch_mod",
         sends |-> IF what = "send" THEN 1 ELSE 0,
         new_versions |-> IF what = "send" THEN r.new_versions ELSE <<>>,
         rows |-> <<>>,
         cache |-> cache]

\* The calls of the iteration that can raise.
CanRaise(cache, mod_id, new_lfu, mod_details) ==
    LET r == UpdatesStep(cache, mod_id, new_lfu, mod_details, <<>>)
    IN  (IF r.fetch_mod THEN {"fetch_mod"} ELSE {})
            \cup (IF r.confirmed THEN {"fetch_mod_changelogs", "send"} ELSE {})

NoOutcome ==
    [raised |-> "none", fetch_mod |-> FALSE, fetch_mod_changelogs |-> FALSE, sends |-> 0,
     new_versions |-> <<>>, rows |-> <<>>, cache |-> EmptyDict]

NoDetails == [version |-> "", contains_adult_content |-> FALSE]

\* The changelogs fetch_mod_changelogs can return to an iteration that confirms an
\* update; an iteration that confirms none makes no such call.
StepChangelogs(cache, mod_id, new_lfu, mod_details) ==
    IF UpdatesStep(cache, mod_id, new_lfu, mod_details, <<>>).confirmed
    THEN ChangelogsOf([version : ChangelogKeys, notes : {<<"fix A">>}], MaxChangelog)
    ELSE {<<>>}

IterationIdle ==
    /\ st_hide = FALSE
    /\ st_tracked = <<>>
    /\ st_cache = EmptyDict
    /\ st_ids = {}
    /\ st_mod = None
    /\ st_new_lfu = None
    /\ st_details = NoDetails
    /\ st_result = NoOutcome
    /\ st_again = NoOutcome
    /\ st_pc = "idle"

\* A cycle about to run line 198, on any cache, tracked list and policy.
InitIteration ==
    /\ st_hide \in BOOLEAN
    /\ st_tracked \in TrackedLists
    /\ st_cache \in StepCaches
    /\ st_ids = {}
    /\ st_mod = None
    /\ st_new_lfu = None
    /\ st_details = NoDetails
    /\ st_result = NoOutcome
    /\ st_again = NoOutcome
    /\ st_pc = "fetched"

\* Line 198: the tracked ids, filtered.
FilterStep ==
    /\ st_pc = "fetched"
    /\ ~TrackedFilterRaises(st_tracked, st_hide)
    /\ st_ids' = FilterTracked(st_tracked, st_hide)
    /\ st_pc' = "filtered"
    /\ UNCHANGED <<st_hide, st_tracked, st_cache, st_mod, st_new_lfu, st_details,
                   st_result, st_again>>
    /\ UNCHANGED notIteration

\* Line 198 raises KeyError on an entry without is_adult: no iteration follows.
FilterStepRaises ==
    /\ st_pc = "fetched"
    /\ TrackedFilterRaises(st_tracked, st_hide)
    /\ st_pc' = "raised"
    /\ UNCHANGED <<st_hide, st_tracked, st_cache, st_ids, st_mod, st_new_lfu,
                   st_details, st_result, st_again>>
    /\ UNCHANGED notIteration

\* Lines 200-262 for one of the filtered ids, whatever updated.json, fetch_mod and
\* fetch_mod_changelogs return for it.
IterateStep ==
    /\ st_pc = "filtered"
    /\ \E mod_id \in st_ids, new_lfu \in {None} \cup Timestamps, mod_details \in StepDetails :
       \E changelogs \in StepChangelogs(st_cache, mod_id, new_lfu, mod_details) :
        /\ st_mod' = mod_id
        /\ st_new_lfu' = new_lfu
        /\ st_details' = mod_details
        /\ st_result' = Outcome(st_cache, mod_id, new_lfu, mod_details, changelogs)
    /\ st_pc' = "iterated"
    /\ UNCHANGED <<st_hide, st_tracked, st_cache, st_ids, st_again>>
    /\ UNCHANGED notIteration

\* Lines 200-244 for one of the filtered ids, one of the calls raising.
IterateStepRaises ==
    /\ st_pc = "filtered"
    /\ \E mod_id \in st_ids, new_lfu \in {None} \cup Timestamps, mod_details \in StepDetails :
       \E what \in CanRaise(st_cache, mod_id, new_lfu, mod_details) :
       \E changelogs \in IF what = "send"
                         THEN StepChangelogs(st_cache, mod_id, new_lfu, mod_details)
                         ELSE {<<>>} :
        /\ st_mod' = mod_id
        /\ st_new_lfu' = new_lfu
        /\ st_details' = mod_details
        /\ st_result' = RaisedOutcome(st_cache, mod_id, new_lfu, mod_details,
                                      changelogs, what)
    /\ st_pc' = "caught"
    /\ UNCHANGED <<st_hide, st_tracked, st_cache, st_ids, st_again>>
    /\ UNCHANGED notIteration

\* The iteration of the next cycle on the same mod, the remote data being the same.
IterateAgain ==
    /\ st_pc = "iterated"
    /\ \E changelogs \in StepChangelogs(st_result.cache, st_mod, st_new_lfu, st_details) :
        st_again' = Outcome(st_result.cache, st_mod, st_new_lfu, st_details, changelogs)
    /\ st_pc' = "again"
    /\ UNCHANGED <<st_hide, st_tracked, st_cache, st_ids, st_mod, st_new_lfu,
                   st_details, st_result>>
    /\ UNCHANGED notIteration

\* ------------------------------------------------------------------ round trip
RoundTripIdle ==
    /\ rt_cache = EmptyDict
    /\ rt_file = AbsentFile
    /\ rt_loaded = EmptyDict
    /\ rt_pc = "idle"

\* Any cache, about to be saved.
InitRoundTrip ==
    /\ rt_cache \in StepCaches
    /\ rt_file = AbsentFile
    /\ rt_loaded = EmptyDict
    /\ rt_pc = "cache"

\* save_state(cache_file_path, local_cache), run to its end.
SaveCache ==
    /\ rt_pc = "cache"
    /\ rt_file' = CacheDocument(rt_cache)
    /\ rt_pc' = "saved"
    /\ UNCHANGED <<rt_cache, rt_loaded>>
    /\ UNCHANGED notRoundTrip

\* Lines 164-166 of the next start.
LoadSavedCache ==
    /\ rt_pc = "saved"
    /\ ~LoadRaises(rt_file)
    /\ rt_loaded' = LoadCache(rt_file)
    /\ rt_pc' = "loaded"
    /\ UNCHANGED <<rt_cache, rt_file>>
    /\ UNCHANGED notRoundTrip

\* ------------------------------------------------------------------ process end
\* The process is gone: its memory with it.  The state file and the history stay.
ProcessEnds(status) ==
    /\ pc' = "stopped"
    /\ command' = command
    /\ exit_status' = status
    /\ hide_adult_content' = FALSE
    /\ loop' = FALSE
    /\ seen_mods' = {}
    /\ mods' = <<>>
    /\ idx' = 0
    /\ new_mods_data' = <<>>
    /\ rerun' = FALSE
    /\ loaded_seen' = {}
    /\ written' = {}
    /\ retry' = {}

\* ------------------------------------------------------------------ additions: actions
\* python main.py ... additions: load_state, then the while loop.
LaunchAdditions ==
    /\ command = "additions"
    /\ pc = "stopped"
    /\ ~LoadRaises(seen_file)
    /\ \E h \in BOOLEAN, l \in BOOLEAN :
        /\ hide_adult_content' = h
        /\ loop' = l
    /\ pc' = "fetch"
    /\ exit_status' = "none"
    /\ raised' = "none"
    /\ command' = command
    /\ seen_mods' = LoadSeen(seen_file)
    /\ loaded_seen' = LoadSeen(seen_file)
    /\ written' = {}
    /\ new_mods_data' = <<>>
    /\ UNCHANGED <<seen_file, mods, idx, sends, adult_skipped, last_snapshot, rerun, unclean,
                   retry>>
    /\ UNCHANGED notAdditions

\* json.load raises on a truncated file: additions() never reaches its loop.
LaunchAdditionsLoadRaises ==
    /\ command = "additions"
    /\ pc = "stopped"
    /\ LoadRaises(seen_file)
    /\ raised /= "load"
    /\ exit_status' = "exception"
    /\ raised' = "load"
    /\ UNCHANGED <<command, pc, hide_adult_content, loop, addVars, addHist>>
    /\ UNCHANGED notAdditions

FetchLatestMods ==
    /\ pc = "fetch"
    /\ LET left == LeftUnseen(last_snapshot, seen_mods)
       IN  \E s \in Snapshots :
            /\ mods' = s
            /\ rerun' = (last_snapshot.has /\ last_snapshot.val = s)
            /\ retry' = Retried(left, s)
    /\ last_snapshot' = NoSnapshot
    /\ idx' = 1
    /\ pc' = "for"
    /\ UNCHANGED <<command, exit_status, raised, hide_adult_content, loop, seen_mods,
                   seen_file, new_mods_data, sends, adult_skipped, unclean, loaded_seen,
                   written>>
    /\ UNCHANGED notAdditions

\* requests.get or response.json() raises: nothing in additions() catches it.
FetchLatestModsRaises ==
    /\ pc = "fetch"
    /\ ProcessEnds("exception")
    /\ raised' = "fetch"
    /\ UNCHANGED <<seen_file, sends, adult_skipped, last_snapshot, unclean>>
    /\ UNCHANGED notAdditions

\* One iteration of the for loop; send_telegram_message, when called, returns
\* (whatever Telegram answered: the response is not looked at).
ProcessMod ==
    /\ pc = "for"
    /\ idx <= Len(mods)
    /\ LET mod == SortByModId(mods)[idx]
           r == AdditionsStep(seen_mods, mod, hide_adult_content)
       IN  /\ r.notify => sends[mod.mod_id] < MaxSends
           /\ seen_mods' = r.seen
           /\ new_mods_data' = IF r.notify THEN Append(new_mods_data, mod.mod_id)
                               ELSE new_mods_data
           /\ sends' = IF r.notify THEN [sends EXCEPT ![mod.mod_id] = @ + 1] ELSE sends
           /\ adult_skipped' = IF r.adult THEN adult_skipped \cup {mod.mod_id}
                               ELSE adult_skipped
    /\ idx' = idx + 1
    /\ UNCHANGED <<procVars, seen_file, mods, last_snapshot, rerun, unclean,
                   loaded_seen, written, retry>>
    /\ UNCHANGED notAdditions

\* The iteration calls send_telegram_message and requests.post raises: the exception
\* leaves additions(), and only KeyboardInterrupt is caught above it.
ProcessModSendRaises ==
    /\ pc = "for"
    /\ idx <= Len(mods)
    /\ LET mod == SortByModId(mods)[idx]
           r == AdditionsStep(seen_mods, mod, hide_adult_content)
       IN  /\ r.notify
           /\ sends[mod.mod_id] < MaxSends
           /\ sends' = [sends EXCEPT ![mod.mod_id] = @ + 1]
    /\ ProcessEnds("exception")
    /\ raised' = "send"
    /\ unclean' = TRUE
    /\ UNCHANGED <<seen_file, adult_skipped, last_snapshot>>
    /\ UNCHANGED notAdditions

\* The loop is over: the report is printed and cleared, and save_state opens the
\* file for writing, which truncates it.
ReportAdditions ==
    /\ pc = "for"
    /\ idx > Len(mods)
    /\ new_mods_data' = <<>>
    /\ seen_file' = PartialFile
    /\ pc' = "dump"
    /\ retry' = {}
    /\ UNCHANGED <<command, exit_status, raised, hide_adult_content, loop, seen_mods,
                   mods, idx, sends, adult_skipped, last_snapshot, rerun, unclean,
                   loaded_seen, written>>
    /\ UNCHANGED notAdditions

\* json.dump and the close of the file; then the sleep, or the break of --no-loop.
SaveSeenMods ==
    /\ pc = "dump"
    /\ seen_file' \in SeenDocuments(seen_mods)
    /\ last_snapshot' = SomeSnapshot(mods)
    /\ IF loop
       THEN /\ pc' = "sleep"
            /\ rerun' = FALSE
            /\ written' = written \cup seen_mods
            /\ UNCHANGED <<command, exit_status, raised, hide_adult_content, loop,
                           seen_mods, mods, idx, new_mods_data, loaded_seen, retry>>
       ELSE ProcessEnds("normal") /\ raised' = "none"
    /\ UNCHANGED <<sends, adult_skipped, unclean>>
    /\ UNCHANGED notAdditions

SleepAdditions ==
    /\ pc = "sleep"
    /\ pc' = "fetch"
    /\ UNCHANGED <<command, exit_status, raised, hide_adult_content, loop, addVars, addHist>>
    /\ UNCHANGED notAdditions

\* KeyboardInterrupt, at any point of the run: "Exiting...", exit(0).
InterruptAdditions ==
    /\ command = "additions"
    /\ pc /= "stopped"
    /\ ProcessEnds("interrupt")
    /\ raised' = "none"
    /\ unclean' = (unclean \/ pc \in {"for", "dump"})
    /\ UNCHANGED <<seen_file, sends, adult_skipped, last_snapshot>>
    /\ UNCHANGED notAdditions

\* ------------------------------------------------------------------ updates: actions
\* The update process is gone: its memory with it.
UpdatesEnds(status) ==
    /\ pc' = "stopped"
    /\ command' = command
    /\ exit_status' = status
    /\ hide_adult_content' = FALSE
    /\ loop' = FALSE
    /\ local_cache' = EmptyDict
    /\ updated_mod_data' = EmptyDict
    /\ tracked_mod_ids' = {}
    /\ todo' = {}
    /\ mods_with_new_version' = <<>>

\* An Exception raised by a call made at pc: caught behind the try of the cycle, or
\* ending the process.  The cache and the report rows stay as they are; the lists
\* of the cycle are dead (lines 193-198 assign them anew before any use).
UpdatesRaise(what) ==
    /\ raised' = what
    /\ IF Handler(pc) = "stopped"
       THEN UpdatesEnds("exception")
       ELSE /\ pc' = Handler(pc)
            /\ updated_mod_data' = EmptyDict
            /\ tracked_mod_ids' = {}
            /\ todo' = {}
            /\ UNCHANGED <<command, exit_status, hide_adult_content, loop, local_cache,
                           mods_with_new_version>>

\* python main.py ... updates: load the cache; an empty one leads to the initial
\* population, any other straight to the loop.
LaunchUpdates ==
    /\ command = "updates"
    /\ pc = "stopped"
    /\ ~LoadRaises(cache_file)
    /\ \E h \in BOOLEAN, l \in BOOLEAN :
        /\ hide_adult_content' = h
        /\ loop' = l
    /\ local_cache' = LoadCache(cache_file)
    /\ pc' = IF LoadCache(cache_file) = EmptyDict THEN "boot_fetch" ELSE "try"
    /\ exit_status' = "none"
    /\ raised' = "none"
    /\ sent_now' = {}
    /\ unsaved_sends' = Lost(unsaved_sends)
    /\ UNCHANGED <<command, cache_file, updated_mod_data, tracked_mod_ids, todo,
                   mods_with_new_version, remoteVars, saved_sends>>
    /\ UNCHANGED notUpdates

\* json.load raises on a truncated file: updates() never reaches its loop.
LaunchUpdatesLoadRaises ==
    /\ command = "updates"
    /\ pc = "stopped"
    /\ LoadRaises(cache_file)
    /\ raised /= "load"
    /\ exit_status' = "exception"
    /\ raised' = "load"
    /\ sent_now' = {}
    /\ UNCHANGED <<command, pc, hide_adult_content, loop, updVars, remoteVars,
                   unsaved_sends, saved_sends>>
    /\ UNCHANGED notUpdates

\* Lines 174-178: the two lists of the initial population; the tracked ids are not
\* filtered here.
BootFetch ==
    /\ pc = "boot_fetch"
    /\ updated_mod_data' \in UpdatedLists
    /\ \E tracked \in TrackedLists :
        /\ tracked_mod_ids' = DOMAIN tracked
        /\ todo' = DOMAIN tracked
    /\ pc' = "boot_for"
    /\ sent_now' = {}
    /\ UNCHANGED <<command, exit_status, raised, hide_adult_content, loop, local_cache,
                   cache_file, mods_with_new_version, remoteVars,
                   unsaved_sends, saved_sends>>
    /\ UNCHANGED notUpdates

\* Lines 179-185: one iteration of the initial population.
BootMod ==
    /\ pc = "boot_for"
    /\ \E mod_id \in todo : \E mod_info \in ModDetails(mod_id) :
        /\ local_cache' = DictPut(local_cache, mod_id,
                                  CacheEntry(mod_info.version,
                                             DictGet(updated_mod_data, mod_id),
                                             mod_info.contains_adult_content))
        /\ todo' = todo \ {mod_id}
    /\ sent_now' = {}
    /\ UNCHANGED <<procVars, cache_file, updated_mod_data, tracked_mod_ids,
                   mods_with_new_version, remoteVars, unsaved_sends, saved_sends>>
    /\ UNCHANGED notUpdates

\* A fetch of the initial population raises: nothing catches it there.
BootRaises ==
    /\ pc \in {"boot_fetch", "boot_for"}
    /\ pc = "boot_for" => todo /= {}
    /\ UpdatesRaise("fetch")
    /\ sent_now' = {}
    /\ UNCHANGED <<cache_file, remoteVars, unsaved_sends, saved_sends>>
    /\ UNCHANGED notUpdates

\* Line 186, first half: save_state opens the file, which truncates it.
BootOpen ==
    /\ pc = "boot_for"
    /\ todo = {}
    /\ cache_file' = PartialFile
    /\ pc' = "boot_dump"
    /\ sent_now' = {}
    /\ UNCHANGED <<command, exit_status, raised, hide_adult_content, loop, local_cache,
                   updated_mod_data, tracked_mod_ids, todo, mods_with_new_version,
                   remoteVars, unsaved_sends, saved_sends>>
    /\ UNCHANGED notUpdates

\* Line 186, second half: json.dump and the close; then into the loop.
BootDump ==
    /\ pc = "boot_dump"
    /\ cache_file' = CacheDocument(local_cache)
    /\ pc' = "try"
    /\ sent_now' = {}
    /\ unsaved_sends' = {}
    /\ saved_sends' = saved_sends \cup Returned({x \in unsaved_sends : ~x.lost})
    /\ UNCHANGED <<command, exit_status, raised, hide_adult_content, loop, local_cache,
                   updated_mod_data, tracked_mod_ids, todo, mods_with_new_version,
                   remoteVars>>
    /\ UNCHANGED notUpdates

\* Lines 193-198: the two lists of a cycle, the tracked ids filtered.
CycleFetch ==
    /\ pc = "try"
    /\ updated_mod_data' \in UpdatedLists
    /\ \E tracked \in TrackedLists :
        /\ ~TrackedFilterRaises(tracked, hide_adult_content)
        /\ tracked_mod_ids' = FilterTracked(tracked, hide_adult_content)
        /\ todo' = FilterTracked(tracked, hide_adult_content)
    /\ pc' = "upd_for"
    /\ raised' = "none"
    /\ sent_now' = {}
    /\ UNCHANGED <<command, exit_status, hide_adult_content, loop, local_cache,
                   cache_file, mods_with_new_version, remoteVars,
                   unsaved_sends, saved_sends>>
    /\ UNCHANGED notUpdates

\* A fetch of the cycle raises, or line 198 does on an entry without is_adult.
CycleFetchRaises ==
    /\ pc = "try"
    /\ \E what \in {"fetch", "malformed"} :
        /\ what = "malformed" =>
             \E tracked \in TrackedLists : TrackedFilterRaises(tracked, hide_adult_content)
        /\ UpdatesRaise(what)
    /\ sent_now' = {}
    /\ UNCHANGED <<cache_file, remoteVars, unsaved_sends, saved_sends>>
    /\ UNCHANGED notUpdates

\* Lines 200-262: one iteration of the for loop in which no call raises;
\* send_telegram_message, when called, returns (whatever Telegram answered: the
\* response is not looked at).
ProcessTracked ==
    /\ pc = "upd_for"
    /\ \E mod_id \in todo : \E mod_details \in ModDetails(mod_id) :
       \E changelogs \in FetchedChangelogs(local_cache, mod_id, mod_details) :
        LET new_lfu == DictGet(updated_mod_data, mod_id)
            r == UpdatesStep(local_cache, mod_id, new_lfu, mod_details, changelogs)
            c == Change(mod_id, new_lfu)
        IN  /\ local_cache' = r.cache
            /\ todo' = todo \ {mod_id}
            /\ mods_with_new_version' =
                 IF r.confirmed
                 THEN mods_with_new_version
                        \o ReportRows(mod_id, local_cache[mod_id].version, r.new_versions)
                 ELSE mods_with_new_version
            /\ sent_now' = IF r.confirmed THEN {c} ELSE {}
            /\ unsaved_sends' = IF r.confirmed THEN Recorded(unsaved_sends, c, FALSE)
                                ELSE unsaved_sends
            /\ saved_sends' = saved_sends
    /\ UNCHANGED <<procVars, cache_file, updated_mod_data, tracked_mod_ids, remoteVars>>
    /\ UNCHANGED notUpdates

\* An iteration in which fetch_mod or fetch_mod_changelogs raises, or the details
\* lack a field: the except clause takes over, the entry is not overwritten.
ProcessTrackedFetchRaises ==
    /\ pc = "upd_for"
    /\ \E mod_id \in todo : \E mod_details \in ModDetails(mod_id) :
        UpdatesStep(local_cache, mod_id, DictGet(updated_mod_data, mod_id),
                    mod_details, <<>>).fetch_mod
    /\ UpdatesRaise("fetch")
    /\ sent_now' = {}
    /\ UNCHANGED <<cache_file, remoteVars, unsaved_sends, saved_sends>>
    /\ UNCHANGED notUpdates

\* An iteration that confirms an update and whose send_telegram_message raises
\* (requests.post does): the except clause takes over before lines 246-262.
ProcessTrackedSendRaises ==
    /\ pc = "upd_for"
    /\ \E mod_id \in todo : \E mod_details \in ModDetails(mod_id) :
        LET new_lfu == DictGet(updated_mod_data, mod_id)
            c == Change(mod_id, new_lfu)
        IN  /\ UpdatesStep(local_cache, mod_id, new_lfu, mod_details, <<>>).confirmed
            /\ sent_now' = {c}
            /\ unsaved_sends' = Recorded(unsaved_sends, c, TRUE)
            /\ saved_sends' = saved_sends
    /\ UpdatesRaise("send")
    /\ UNCHANGED <<cache_file, remoteVars>>
    /\ UNCHANGED notUpdates

\* Line 264, first half: save_state opens the file, which truncates it.
CacheOpen ==
    /\ pc = "upd_for"
    /\ todo = {}
    /\ cache_file' = PartialFile
    /\ pc' = "upd_dump"
    /\ sent_now' = {}
    /\ UNCHANGED <<command, exit_status, raised, hide_adult_content, loop, local_cache,
                   updated_mod_data, tracked_mod_ids, todo, mods_with_new_version,
                   remoteVars, unsaved_sends, saved_sends>>
    /\ UNCHANGED notUpdates

\* Line 264, second half: json.dump and the close.  The lists of the cycle are dead
\* from here on.
CacheDump ==
    /\ pc = "upd_dump"
    /\ cache_file' = CacheDocument(local_cache)
    /\ pc' = "report"
    /\ sent_now' = {}
    /\ unsaved_sends' = {}
    /\ saved_sends' = saved_sends \cup Returned({x \in unsaved_sends : ~x.lost})
    /\ updated_mod_data' = EmptyDict
    /\ tracked_mod_ids' = {}
    /\ UNCHANGED <<command, exit_status, raised, hide_adult_content, loop, local_cache,
                   todo, mods_with_new_version, remoteVars>>
    /\ UNCHANGED notUpdates

\* save_state raises in open (an OSError: the file is left as it was): in a cycle
\* the except clause takes over, in the initial population nothing does.
SaveOpenRaises ==
    /\ pc \in {"boot_for", "upd_for"}
    /\ todo = {}
    /\ UpdatesRaise("save")
    /\ sent_now' = {}
    /\ UNCHANGED <<cache_file, remoteVars, unsaved_sends, saved_sends>>
    /\ UNCHANGED notUpdates

\* save_state raises in json.dump or in the close (an OSError of a write): the file
\* stays as the open and the writes so far left it.
SaveDumpRaises ==
    /\ pc \in {"boot_dump", "upd_dump"}
    /\ UpdatesRaise("save")
    /\ sent_now' = {}
    /\ UNCHANGED <<cache_file, remoteVars, unsaved_sends, saved_sends>>
    /\ UNCHANGED notUpdates

\* Lines 269-280: the report is printed and cleared; then the sleep, or the break
\* of --no-loop.
ReportUpdates ==
    /\ pc = "report"
    /\ sent_now' = {}
    /\ IF loop
       THEN /\ pc' = "upd_sleep"
            /\ mods_with_new_version' = <<>>
            /\ UNCHANGED <<command, exit_status, raised, hide_adult_content, loop,
                           local_cache, updated_mod_data, tracked_mod_ids, todo>>
       ELSE UpdatesEnds("normal") /\ raised' = raised
    /\ UNCHANGED <<cache_file, remoteVars, unsaved_sends, saved_sends>>
    /\ UNCHANGED notUpdates

\* A faulty loop: `while True` put around the initial population too.
SleepUpdates_Repopulates ==
    /\ pc = "upd_sleep"
    /\ pc' = IF local_cache = EmptyDict THEN "boot_fetch" ELSE "try"
    /\ sent_now' = {}
    /\ UNCHANGED <<command, exit_status, raised, hide_adult_content, loop, updVars,
                   remoteVars, unsaved_sends, saved_sends>>
    /\ UNCHANGED notUpdates

\* Lines 276-278 and back to line 189: time.sleep returns, the next cycle begins.
SleepUpdates ==
    /\ pc = "upd_sleep"
    /\ pc' = "try"
    /\ sent_now' = {}
    /\ UNCHANGED <<command, exit_status, raised, hide_adult_content, loop, updVars,
                   remoteVars, unsaved_sends, saved_sends>>
    /\ UNCHANGED notUpdates

\* KeyboardInterrupt, at any point of the run: not an Exception, so the except
\* clause of the cycle lets it through to "Exiting...", exit(0).
InterruptUpdates ==
    /\ command = "updates"
    /\ pc /= "stopped"
    /\ UpdatesEnds("interrupt")
    /\ raised' = "none"
    /\ sent_now' = {}
    /\ UNCHANGED <<cache_file, remoteVars, unsaved_sends, saved_sends>>
    /\ UNCHANGED notUpdates

\* The remote site: a new file of a mod is published, under any version string.
\* The time of a mod's latest file update never goes back.
PublishFile ==
    /\ command = "updates"
    /\ \E m \in Mods, v \in Versions :
        /\ remote_lfu[m] < MaxTS
        /\ remote_lfu' = [remote_lfu EXCEPT ![m] = @ + 1]
        /\ remote_version' = [remote_version EXCEPT ![m] = v]
    /\ sent_now' = {}
    /\ UNCHANGED <<procVars, updVars, unsaved_sends, saved_sends>>
    /\ UNCHANGED notUpdates

\* ------------------------------------------------------------------ specifications
AdditionsIdle ==
    /\ seen_mods = {}
    /\ seen_file = AbsentFile
    /\ mods = <<>>
    /\ idx = 0
    /\ new_mods_data = <<>>
    /\ sends = [m \in Mods |-> 0]
    /\ adult_skipped = {}
    /\ last_snapshot = NoSnapshot
    /\ rerun = FALSE
    /\ unclean = FALSE
    /\ loaded_seen = {}
    /\ written = {}
    /\ retry = {}

UpdatesIdle ==
    /\ local_cache = EmptyDict
    /\ cache_file = AbsentFile
    /\ updated_mod_data = EmptyDict
    /\ tracked_mod_ids = {}
    /\ todo = {}
    /\ mods_with_new_version = <<>>
    /\ remote_version = [m \in Mods |-> "1.0"]
    /\ remote_lfu = [m \in Mods |-> 1]
    /\ sent_now = {}
    /\ unsaved_sends = {}
    /\ saved_sends = {}

ChangelogIdle ==
    /\ cl_old_version = "1.0"
    /\ cl_changelogs = <<>>
    /\ cl_new_versions = <<>>
    /\ cl_pc = "idle"

NoProcess ==
    /\ pc = "stopped"
    /\ exit_status = "none"
    /\ raised = "none"
    /\ hide_adult_content = FALSE
    /\ loop = FALSE

InitAdditions ==
    /\ command = "additions"
    /\ NoProcess
    /\ AdditionsIdle
    /\ UpdatesIdle
    /\ ChangelogIdle
    /\ IterationIdle
    /\ RoundTripIdle

InitUpdates ==
    /\ command = "updates"
    /\ NoProcess
    /\ AdditionsIdle
    /\ UpdatesIdle
    /\ ChangelogIdle
    /\ IterationIdle
    /\ RoundTripIdle

InitResolve ==
    /\ command = "none"
    /\ NoProcess
    /\ AdditionsIdle
    /\ UpdatesIdle
    /\ InitChangelog
    /\ IterationIdle
    /\ RoundTripIdle

InitStep ==
    /\ command = "none"
    /\ NoProcess
    /\ AdditionsIdle
    /\ UpdatesIdle
    /\ ChangelogIdle
    /\ InitIteration
    /\ RoundTripIdle

NextStep ==
    \/ FilterStep
    \/ FilterStepRaises
    \/ IterateStep
    \/ IterateStepRaises
    \/ IterateAgain

SpecStep == InitStep /\ [][NextStep]_vars

InitSaveLoad ==
    /\ command = "none"
    /\ NoProcess
    /\ AdditionsIdle
    /\ UpdatesIdle
    /\ ChangelogIdle
    /\ IterationIdle
    /\ InitRoundTrip

NextSaveLoad ==
    \/ SaveCache
    \/ LoadSavedCache

SpecSaveLoad == InitSaveLoad /\ [][NextSaveLoad]_vars

NextUpdates ==
    \/ LaunchUpdates
    \/ LaunchUpdatesLoadRaises
    \/ BootFetch
    \/ BootMod
    \/ BootRaises
    \/ BootOpen
    \/ BootDump
    \/ CycleFetch
    \/ CycleFetchRaises
    \/ ProcessTracked
    \/ ProcessTrackedFetchRaises
    \/ ProcessTrackedSendRaises
    \/ CacheOpen
    \/ CacheDump
    \/ ReportUpdates
    \/ SleepUpdates
    \/ InterruptUpdates
    \/ PublishFile

SpecUpdates == InitUpdates /\ [][NextUpdates]_vars

\* The update tracker on a disk whose writes can fail.
NextUpdatesSave ==
    \/ NextUpdates
    \/ SaveOpenRaises
    \/ SaveDumpRaises

SpecUpdatesSave == InitUpdates /\ [][NextUpdatesSave]_vars

SpecChangelog == InitResolve /\ [][ResolveChangelog]_vars

NextAdditions ==
    \/ LaunchAdditions
    \/ LaunchAdditionsLoadRaises
    \/ FetchLatestMods
    \/ FetchLatestModsRaises
    \/ ProcessMod
    \/ ProcessModSendRaises
    \/ ReportAdditions
    \/ SaveSeenMods
    \/ SleepAdditions
    \/ InterruptAdditions

SpecAdditions == InitAdditions /\ [][NextAdditions]_vars

\* main.py under either command.
Init == InitAdditions \/ InitUpdates

Next == NextAdditions \/ NextUpdates

Spec == Init /\ [][Next]_vars

\* ================================================================== claims
\* ------------------------------------------------------------------ C1
\* C1 (idempotence): a cycle that fetches the list of the last cycle that ran to its
\* save (in this process or in an earlier one whose file was reloaded) calls
\* send_telegram_message for no mod, whatever the adult-content filter is now.
C1_RerunSendsNothing == [][rerun => sends' = sends]_vars

\* A rerun, under the filter switched off, has walked a list holding a mod that an
\* earlier cycle skipped as adult and a mod that an earlier cycle notified.
C1_Witness ==
    /\ rerun
    /\ pc = "for"
    /\ idx > Len(mods)
    /\ ~hide_adult_content
    /\ \E i, j \in 1..Len(mods) :
        /\ mods[i].available /\ mods[i].contains_adult_content
        /\ mods[i].mod_id \in adult_skipped /\ sends[mods[i].mod_id] = 0
        /\ mods[j].available /\ sends[mods[j].mod_id] = 1

\* ------------------------------------------------------------------ C2
\* C2 (at most once): as long as every process has ended outside a cycle (so every
\* cycle that started ran to its save), no mod id has been the subject of more than
\* one send_telegram_message call, across restarts and filter changes.
C2_AtMostOnce == ~unclean => \A m \in Mods : sends[m] <= 1

\* A mod notified once is met again, available, by a later process that reloaded the
\* seen-set and runs with the filter off; a mod skipped as adult by an earlier
\* process is met again too.
C2_Witness ==
    /\ ~unclean
    /\ pc = "for"
    /\ idx > Len(mods)
    /\ ~hide_adult_content
    /\ written = {}
    /\ \E i, j \in 1..Len(mods) :
        /\ mods[i].available /\ mods[i].mod_id \in loaded_seen
        /\ sends[mods[i].mod_id] = 1
        /\ mods[j].available /\ mods[j].mod_id \in adult_skipped
        /\ mods[j].mod_id \in loaded_seen /\ sends[mods[j].mod_id] = 0

\* ------------------------------------------------------------------ C3
\* C3 as claimed: no change whose send_telegram_message call returned is the subject
\* of another call that returns, a crash before the save of the cache and a restart
\* from the cache file included.
C3_Original ==
    [][\A c \in sent_now' : raised' /= "send" => c \notin Returned(unsaved_sends)]_vars

\* C3 amended: once a write of the cache file has covered the cache entry of a
\* notified change, no process, restarted or not, calls send_telegram_message for
\* that change again.  (A change notified after the last write is notified again
\* by the process restarted after a crash: a duplicate, not a missed detection.)
C3_NoResendOnceSaved == [][\A c \in sent_now' : c \notin saved_sends]_vars

\* A process restarted after a crash that lost the cache entry of a notified change
\* has met again, with the same timestamp, a change that was notified and saved, and
\* is past it in the loop.
C3_Witness ==
    /\ pc = "upd_for"
    /\ \E x \in unsaved_sends :
        /\ x.lost /\ ~x.failed
        /\ x.change.mod_id \in DOMAIN local_cache
        /\ local_cache[x.change.mod_id].latest_file_update
            /= x.change.latest_file_update
    /\ \E c \in saved_sends :
        /\ c.mod_id \in tracked_mod_ids \ todo
        /\ DictGet(updated_mod_data, c.mod_id) = c.latest_file_update
        /\ local_cache[c.mod_id].latest_file_update = c.latest_file_update

\* ------------------------------------------------------------------ C4
\* The old version is no key of the changelog that was resolved.
OldVersionAbsent ==
    /\ cl_pc = "resolved"
    /\ \A i \in 1..Len(cl_changelogs) : cl_changelogs[i].version /= cl_old_version

\* C4 as claimed: when the old version is no key of the fetched changelog, the
\* entries reported are those from the second-to-last entry onward (all of them
\* when the changelog has fewer than two).
C4_Original ==
    OldVersionAbsent =>
        cl_new_versions =
            SubSeq(cl_changelogs,
                   IF Len(cl_changelogs) >= 2 THEN Len(cl_changelogs) - 1 ELSE 1,
                   Len(cl_changelogs))

\* C4 amended: when the old version is no key of the fetched changelog, the entries
\* reported are the last entry of the changelog alone, with its notes, and none when
\* the changelog is empty.
C4_FallbackLastEntry ==
    OldVersionAbsent =>
        cl_new_versions =
            IF Len(cl_changelogs) = 0 THEN <<>>
            ELSE <<cl_changelogs[Len(cl_changelogs)]>>

\* Old version "0.9" resolved against a changelog of three entries: the third alone
\* is reported.
C4_Witness ==
    /\ OldVersionAbsent
    /\ cl_old_version = "0.9"
    /\ Len(cl_changelogs) = 3
    /\ cl_new_versions = <<cl_changelogs[3]>>

\* ------------------------------------------------------------------ C5
\* C5 (detection): when the old version is the key at place i of the fetched
\* changelog, the entries reported are the entries at the places after i, each with
\* its notes, in the changelog's order.
C5_EntriesAfterOld ==
    \A i \in 1..Len(cl_changelogs) :
        (cl_pc = "resolved" /\ cl_changelogs[i].version = cl_old_version) =>
            /\ Len(cl_new_versions) = Len(cl_changelogs) - i
            /\ \A k \in 1..Len(cl_new_versions) :
                cl_new_versions[k] = cl_changelogs[i + k]

\* Old version "1.0" resolved against the keys 1.0, 1.1, 1.2: 1.1 then 1.2 are
\* reported, with their notes.
C5_Witness ==
    /\ cl_pc = "resolved"
    /\ cl_old_version = "1.0"
    /\ Len(cl_changelogs) = 3
    /\ cl_changelogs[1].version = "1.0"
    /\ cl_changelogs[2] = [version |-> "1.1", notes |-> <<"fix A">>]
    /\ cl_changelogs[3] = [version |-> "1.2", notes |-> <<"fix B", "fix C">>]
    /\ cl_new_versions = <<cl_changelogs[2], cl_changelogs[3]>>

\* ------------------------------------------------------------------ C6
\* C6 as claimed: whenever no process runs, each state file is absent or holds a
\* complete document (the one of the last save that completed, or the new one),
\* never a truncated or half-written one.
C6_Original ==
    pc = "stopped" => seen_file.kind /= "partial" /\ cache_file.kind /= "partial"

\* ------------------------------------------------------------------ C7
\* C7 as claimed: a change whose send_telegram_message call raised is not the subject
\* of a later call, and no process ends by the exception of a send.
C7_Original ==
    [][/\ \A c \in sent_now' : \A x \in unsaved_sends : x.change = c => ~x.failed
       /\ ~(exit_status' = "exception" /\ raised' = "send")]_vars

\* ------------------------------------------------------------------ C8
\* C8 (asymmetry): an Exception raised in a steady-state cycle of updates() does not
\* end the process: control is at the report next, and from the report the process
\* goes to its sleep, or ends normally under --no-loop (or is interrupted); an
\* Exception raised by the fetch of a cycle of additions() ends the process, and
\* seen_mods.json is left as it was.
C8_CaughtInUpdatesOnly ==
    [][/\ (/\ command = "updates"
           /\ pc \in {"try", "upd_for", "upd_dump"}
           /\ raised' /= "none" /\ pc' /= pc)
            => (pc' = "report" /\ exit_status' = "none")
       /\ (command = "updates" /\ pc = "report" /\ pc' /= pc)
            => \/ loop /\ pc' = "upd_sleep" /\ exit_status' = "none"
               \/ ~loop /\ pc' = "stopped" /\ exit_status' = "normal"
               \/ pc' = "stopped" /\ exit_status' = "interrupt"
       /\ (command = "additions" /\ pc = "fetch" /\ raised' /= "none")
            => (pc' = "stopped" /\ exit_status' = "exception" /\ seen_file' = seen_file)
      ]_vars

\* updates() sleeps after a cycle in which a fetch raised before the loop was through
\* with a cache that a save has yet to write.
C8_Witness ==
    /\ command = "updates"
    /\ pc = "upd_sleep"
    /\ raised = "fetch"
    /\ exit_status = "none"
    /\ local_cache /= LoadCache(cache_file)

\* ------------------------------------------------------------------ C9
\* C9 (monotonicity): while a process runs, no step removes a member from seen_mods,
\* and every document the process writes holds the set it loaded at startup and
\* every set it wrote before.
C9_SeenMonotone ==
    [][/\ (pc /= "stopped" /\ pc' /= "stopped") => seen_mods \subseteq seen_mods'
       /\ (pc = "dump" /\ seen_file'.kind = "json")
            => (loaded_seen \cup written) \subseteq Range(seen_file'.data)]_vars

\* A process that loaded a non-empty seen-set has written twice, the second time
\* more than the first.
C9_Witness ==
    /\ pc = "sleep"
    /\ loaded_seen /= {}
    /\ loaded_seen /= seen_mods
    /\ written = seen_mods
    /\ seen_file.kind = "json"
    /\ Range(seen_file.data) = seen_mods

\* ------------------------------------------------------------------ C10
\* C10 as claimed: a mod that took the adult-content skip is never the subject of a
\* send_telegram_message call afterwards.
C10_Original == [][\A m \in adult_skipped : sends'[m] = sends[m]]_vars

\* C10 amended: the step that skips a mod as adult adds it to seen_mods and sends
\* nothing; while that process runs, and in every later process once a save has put
\* the mod into seen_mods.json, no send_telegram_message call is made for it.
C10_AdultSkipIsFinal ==
    [][/\ \A m \in adult_skipped' \ adult_skipped :
            m \in seen_mods' /\ sends' = sends
       /\ \A m \in adult_skipped :
            (m \in seen_mods \/ m \in LoadSeen(seen_file)) => sends'[m] = sends[m]]_vars

\* A later process, with the filter off, has walked a list holding an available mod
\* that an earlier process skipped as adult, and has sent nothing for it.
C10_Witness ==
    /\ pc = "for"
    /\ idx > Len(mods)
    /\ ~hide_adult_content
    /\ \E i \in 1..Len(mods) :
        /\ mods[i].available /\ mods[i].contains_adult_content
        /\ mods[i].mod_id \in adult_skipped
        /\ mods[i].mod_id \in loaded_seen
        /\ sends[mods[i].mod_id] = 0

\* ------------------------------------------------------------------ C11
\* The mod the for loop of additions() is at.
CurrentMod == SortByModId(mods)[idx]

\* C11 (retry of the unavailable): an iteration on a mod that seen_mods does not hold
\* and that the list reports unavailable leaves seen_mods as it is and sends nothing;
\* an iteration, in a later cycle, on such a mod now reported available and passing
\* the adult-content filter calls send_telegram_message for it once and adds it to
\* seen_mods.
C11_UnavailableRetried ==
    [][(pc = "for" /\ idx <= Len(mods) /\ idx' = idx + 1) =>
        /\ (CurrentMod.mod_id \notin seen_mods /\ ~CurrentMod.available)
            => (seen_mods' = seen_mods /\ sends' = sends)
        /\ (/\ CurrentMod.mod_id \in retry \ seen_mods
            /\ CurrentMod.available
            /\ ~(hide_adult_content /\ CurrentMod.contains_adult_content))
            => /\ sends' = [sends EXCEPT ![CurrentMod.mod_id] = @ + 1]
               /\ CurrentMod.mod_id \in seen_mods']_vars

\* The loop is through a list reporting available a mod that the cycle before left
\* out of the seen-set as unavailable: the mod has its one notification, from this
\* cycle.
C11_Witness ==
    /\ pc = "for"
    /\ idx > Len(mods)
    /\ ~unclean
    /\ \E m \in retry :
        /\ m \in seen_mods
        /\ m \notin loaded_seen \cup written
        /\ sends[m] = 1

\* ------------------------------------------------------------------ C12
\* C12 (no-op on unchanged timestamp): an iteration on a mod that the cache holds and
\* whose remote latest_file_update is the cached one, or is not in the updated list,
\* calls neither fetch_mod nor fetch_mod_changelogs nor send_telegram_message,
\* appends no row, and leaves the cache as it was.
C12_UnchangedTimestampNoOp ==
    (/\ st_pc \in {"iterated", "again"}
     /\ st_mod \in DOMAIN st_cache
     /\ (st_new_lfu = None \/ st_new_lfu = st_cache[st_mod].latest_file_update))
    => /\ ~st_result.fetch_mod
       /\ ~st_result.fetch_mod_changelogs
       /\ st_result.sends = 0
       /\ st_result.rows = <<>>
       /\ st_result.cache = st_cache

\* An iteration has met the cached timestamp again while the remote version is another
\* one than the cached.
C12_Witness ==
    /\ st_pc = "iterated"
    /\ st_mod \in DOMAIN st_cache
    /\ st_new_lfu /= None
    /\ st_new_lfu = st_cache[st_mod].latest_file_update
    /\ st_cache[st_mod].version = "1.0"
    /\ st_details.version = "1.1"
    /\ st_result.sends = 0

\* ------------------------------------------------------------------ C15
\* C15 as claimed: under the adult-content policy no mod whose cache entry has
\* is_adult = true is among the ids the loop iterates over, and its entry stays as it
\* is.
C15_Original ==
    (st_pc \in {"filtered", "iterated", "again"} /\ st_hide)
    => \A m \in DOMAIN st_cache :
        st_cache[m].is_adult
            => /\ m \notin st_ids
               /\ st_pc /= "filtered" => (st_mod /= m /\ st_result.cache[m] = st_cache[m])

\* ------------------------------------------------------------------ C16
\* C16 (first observation is silent): an iteration on a mod that the cache does not
\* hold calls fetch_mod, puts into the cache an entry of the fetched version and
\* adult flag and of this cycle's remote timestamp (None when there is none), leaves
\* the other entries alone, and sends nothing and appends no row.
C16_FirstObservationSilent ==
    (st_pc \in {"iterated", "again"} /\ st_mod \notin DOMAIN st_cache)
    => /\ st_result.fetch_mod
       /\ ~st_result.fetch_mod_changelogs
       /\ st_result.sends = 0
       /\ st_result.rows = <<>>
       /\ DOMAIN st_result.cache = DOMAIN st_cache \cup {st_mod}
       /\ st_result.cache[st_mod].version = st_details.version
       /\ st_result.cache[st_mod].is_adult = st_details.contains_adult_content
       /\ st_result.cache[st_mod].latest_file_update = st_new_lfu
       /\ \A m \in DOMAIN st_cache : st_result.cache[m] = st_cache[m]

\* A mod the cache does not hold, with a version and a timestamp, was iterated on.
C16_Witness ==
    /\ st_pc = "iterated"
    /\ st_mod \notin DOMAIN st_cache
    /\ st_cache /= EmptyDict
    /\ st_new_lfu \in Timestamps
    /\ st_details.version = "1.1"
    /\ st_result.cache[st_mod].latest_file_update = st_new_lfu

\* ------------------------------------------------------------------ C17
\* The condition of lines 215 and 220 on the iteration's inputs.
UpdateConfirmed ==
    /\ st_new_lfu /= None
    /\ st_new_lfu /= st_cache[st_mod].latest_file_update
    /\ st_cache[st_mod].version /= ""
    /\ st_details.version /= ""
    /\ st_cache[st_mod].version /= st_details.version

\* C17 (notification condition): an iteration on a mod that the cache holds calls
\* send_telegram_message if and only if the remote timestamp is there and differs
\* from the cached one and the cached and the fetched version are both non-empty and
\* different; it then calls it once, for all of new_versions, and appends one row
\* for each of them, in their order.
C17_NotificationCondition ==
    (st_pc \in {"iterated", "again"} /\ st_mod \in DOMAIN st_cache)
    => /\ st_result.sends = (IF UpdateConfirmed THEN 1 ELSE 0)
       /\ st_result.fetch_mod_changelogs = UpdateConfirmed
       /\ Len(st_result.rows) = Len(st_result.new_versions)
       /\ \A i \in 1..Len(st_result.rows) :
            /\ st_result.rows[i].ID = st_mod
            /\ st_result.rows[i].Old = st_cache[st_mod].version
            /\ st_result.rows[i].New = st_result.new_versions[i].version
       /\ ~UpdateConfirmed => st_result.new_versions = <<>>

\* An update was confirmed, and two versions of the changelog reported in one call.
C17_Witness ==
    /\ st_pc = "iterated"
    /\ st_mod \in DOMAIN st_cache
    /\ UpdateConfirmed
    /\ st_result.sends = 1
    /\ Len(st_result.rows) = 2

\* ------------------------------------------------------------------ C18
\* C18 as claimed: an iteration on a mod that the cache holds, whose remote timestamp
\* is there and differs from the cached one, and whose fetch_mod call returns,
\* replaces the entry by one of the fetched version and adult flag and the remote
\* timestamp.
C18_Original ==
    (/\ st_pc \in {"iterated", "caught", "again"}
     /\ st_mod \in DOMAIN st_cache
     /\ st_new_lfu /= None
     /\ st_new_lfu /= st_cache[st_mod].latest_file_update
     /\ st_result.raised /= "fetch_mod")
    => /\ st_result.cache[st_mod].version = st_details.version
       /\ st_result.cache[st_mod].is_adult = st_details.contains_adult_content
       /\ st_result.cache[st_mod].latest_file_update = st_new_lfu

\* C18 amended: an iteration on a mod that the cache holds, whose remote timestamp is
\* there and differs from the cached one, and in which no call raises (fetch_mod
\* and, for a confirmed update, fetch_mod_changelogs and send_telegram_message),
\* replaces the entry by one of the fetched version and adult flag and the remote
\* timestamp, whether it confirmed an update or not, and leaves the other entries
\* alone; the iteration of the next cycle, on the same remote data, sends nothing.
\* An iteration in which one of these calls raises leaves the cache as it was.
C18_OverwriteOnTimestampChange ==
    /\ (st_pc = "caught" => st_result.cache = st_cache)
    /\ ((/\ st_pc \in {"iterated", "again"}
         /\ st_mod \in DOMAIN st_cache
         /\ st_new_lfu /= None
         /\ st_new_lfu /= st_cache[st_mod].latest_file_update)
        => (/\ st_result.fetch_mod
            /\ DOMAIN st_result.cache = DOMAIN st_cache
            /\ st_result.cache[st_mod].version = st_details.version
            /\ st_result.cache[st_mod].is_adult = st_details.contains_adult_content
            /\ st_result.cache[st_mod].latest_file_update = st_new_lfu
            /\ \A m \in DOMAIN st_cache \ {st_mod} : st_result.cache[m] = st_cache[m]
            /\ st_pc = "again"
                => (st_again.sends = 0 /\ st_again.cache = st_result.cache)))

\* The timestamp changed and the version did not (no update confirmed): the entry was
\* overwritten all the same, and the next cycle was silent.
C18_Witness ==
    /\ st_pc = "again"
    /\ st_mod \in DOMAIN st_cache
    /\ st_new_lfu \in Timestamps
    /\ st_new_lfu /= st_cache[st_mod].latest_file_update
    /\ st_cache[st_mod].version = st_details.version
    /\ st_cache[st_mod].is_adult /= st_details.contains_adult_content
    /\ st_result.sends = 0
    /\ st_result.cache[st_mod].latest_file_update = st_new_lfu
    /\ st_again.sends = 0

\* ------------------------------------------------------------------ C13
\* Positions of updates() in its initial population and in its loop.
BootPcs == {"boot_fetch", "boot_for", "boot_dump"}
CyclePcs == {"try", "upd_for", "upd_dump", "report", "upd_sleep"}

\* C13 (bootstrap once): a process enters the initial population only at its start,
\* and does so exactly when the cache it loaded is empty; the population leads into
\* the loop, and no step leads from the loop back into the population, whatever the
\* cache holds.
C13_BootstrapOnce ==
    [][/\ (pc' = "boot_fetch" /\ pc /= "boot_fetch")
            => (pc = "stopped" /\ LoadCache(cache_file) = EmptyDict)
       /\ (pc = "stopped" /\ pc' = "try") => LoadCache(cache_file) /= EmptyDict
       /\ (pc' \in BootPcs /\ pc /= "stopped") => pc \in BootPcs
       /\ (pc \in BootPcs) => pc' \in BootPcs \cup {"try", "stopped"}
       /\ (pc \in CyclePcs) => pc' \in CyclePcs \cup {"stopped"}]_vars

\* A process whose initial population left the cache empty (no tracked mod) is at the
\* head of a later cycle, the cycle before having ended in the except clause.
C13_Witness ==
    /\ pc = "try"
    /\ raised = "fetch"
    /\ local_cache = EmptyDict
    /\ cache_file = JsonFile(<<>>)

\* ------------------------------------------------------------------ C14
\* C14 (round trip): the cache a start builds from the file that save_state wrote
\* for a cache is that cache: the same integer keys, and under each the same
\* version, is_adult and latest_file_update, None included.
C14_RoundTrip ==
    rt_pc = "loaded" =>
        /\ DOMAIN rt_loaded = DOMAIN rt_cache
        /\ DOMAIN rt_loaded \subseteq Mods
        /\ \A m \in DOMAIN rt_cache :
            /\ rt_loaded[m].version = rt_cache[m].version
            /\ rt_loaded[m].is_adult = rt_cache[m].is_adult
            /\ rt_loaded[m].latest_file_update = rt_cache[m].latest_file_update

\* A cache of two mods, one without timestamp, was saved under the keys "1" and "2"
\* and loaded back.
C14_Witness ==
    /\ rt_pc = "loaded"
    /\ DOMAIN rt_cache = {1, 2}
    /\ rt_cache[1].latest_file_update = None
    /\ rt_cache[2].latest_file_update = 2
    /\ DOMAIN rt_file.data = {"1", "2"}
    /\ rt_loaded[1].latest_file_update = None

\* ------------------------------------------------------------------ C19
\* The cached mods this cycle's filtered tracked set leaves out.
Untracked == (DOMAIN local_cache) \ tracked_mod_ids

\* C19 (retained-forever cache): the for loop of a cycle visits no mod outside the
\* filtered tracked set, so none is fetched; a step of the loop leaves the cache
\* entry of every cached mod outside that set in place and as it was, and calls
\* send_telegram_message for none of them; and while the process runs no step
\* takes an identifier out of the cache.
C19_RetainedForever ==
    /\ [](pc = "upd_for" => todo \subseteq tracked_mod_ids)
    /\ [][(pc = "upd_for" /\ pc' /= "stopped") =>
            \A m \in Untracked :
                /\ m \in DOMAIN local_cache'
                /\ local_cache'[m] = local_cache[m]
                /\ \A c \in sent_now' : c.mod_id /= m]_vars
    /\ [][(pc /= "stopped" /\ pc' /= "stopped") =>
            DOMAIN local_cache \subseteq DOMAIN local_cache']_vars

\* The loop of a cycle has run over the tracked mod 1 and overwritten its entry;
\* mod 2 is cached, left out of the filtered tracked set, and its remote timestamp
\* differs from the cached one: its entry is as it was loaded from the file.
C19_Witness ==
    /\ pc = "upd_for"
    /\ todo = {}
    /\ tracked_mod_ids = {1}
    /\ DOMAIN local_cache = {1, 2}
    /\ DictGet(updated_mod_data, 2) = 2
    /\ local_cache[2].latest_file_update = 1
    /\ local_cache[1].latest_file_update = 2
    /\ cache_file.kind = "json"
    /\ DOMAIN LoadCache(cache_file) = {1, 2}
    /\ LoadCache(cache_file)[1].latest_file_update = 1
    /\ LoadCache(cache_file)[2] = local_cache[2]

\* ------------------------------------------------------------------ C20
\* The except clause of a cycle has just caught an Exception.
Caught == pc' = "report" /\ raised' /= "none" /\ pc /= "report"

\* C20 as claimed: when an Exception is caught in a cycle, the cache file has not
\* been written in that cycle: it holds a complete snapshot, the catching step
\* leaves it and the in-memory cache as they are, and the save of a later cycle
\* writes the in-memory cache.
C20_Original ==
    /\ []((pc = "report" /\ raised /= "none") => cache_file.kind = "json")
    /\ [][Caught => (cache_file' = cache_file /\ local_cache' = local_cache)]_vars
    /\ [][(pc = "upd_dump" /\ pc' = "report" /\ raised' = "none")
            => cache_file' = CacheDocument(local_cache)]_vars

====
